---- MODULE Spec2Model ----
(***************************************************************************)
(* Model of the three serverless request handlers of VIDNA                 *)
(* (api/generate-filter.py, api/refine-filter.py, api/match-style.py):     *)
(* the response validator (clamp_value, parse_response), the LLM client    *)
(* and the do_POST / do_GET / do_OPTIONS handlers.                          *)
(*                                                                         *)
(* Numbers are decimals scaled by SCALE (1.0 is 10000), so that the        *)
(* rounding to 0, 2 and 3 decimals of parse_response is computed.          *)
(* Texts are sequences of tokens: the code fence, a language tag, white    *)
(* space, other prose, and JSON documents.                                 *)
(***************************************************************************)
EXTENDS Integers, Sequences, FiniteSets, TLC

\* ------------------------------------------------------------------------
\* Bounds of the model
\* ------------------------------------------------------------------------
\* largest magnitude (in whole units) of a number in a model reply
MaxMagnitude == 999
\* longest quizResults / questions sequence of a request body
MaxAnswers == 2
\* longest API key of the environment
MaxKeyLen == 12

\* ------------------------------------------------------------------------
\* Numbers
\* ------------------------------------------------------------------------
SCALE == 10000

Endpoints == {"generate", "refine", "match"}

Fields == {"brightness", "contrast", "saturation", "temperature",
           "tint", "grain", "vignette", "fade"}

Range(lo, hi) == [min |-> lo, max |-> hi]

\* RANGES of generate-filter.py (the conservative table)
RANGES_generate ==
  [brightness  |-> Range(8500, 11500),
   contrast    |-> Range(8500, 12000),
   saturation  |-> Range(7000, 14000),
   temperature |-> Range(-200000, 200000),
   tint        |-> Range(-100000, 100000),
   grain       |-> Range(0, 1500),
   vignette    |-> Range(0, 3500),
   fade        |-> Range(0, 1200)]

\* RANGES of refine-filter.py (the expanded table)
RANGES_refine ==
  [brightness  |-> Range(6000, 15000),
   contrast    |-> Range(6000, 15000),
   saturation  |-> Range(3000, 18000),
   temperature |-> Range(-400000, 400000),
   tint        |-> Range(-250000, 250000),
   grain       |-> Range(0, 4000),
   vignette    |-> Range(0, 6000),
   fade        |-> Range(0, 3500)]

\* RANGES of match-style.py (the expanded table)
RANGES_match ==
  [brightness  |-> Range(6000, 15000),
   contrast    |-> Range(6000, 15000),
   saturation  |-> Range(3000, 18000),
   temperature |-> Range(-400000, 400000),
   tint        |-> Range(-250000, 250000),
   grain       |-> Range(0, 4000),
   vignette    |-> Range(0, 6000),
   fade        |-> Range(0, 3500)]

RANGES(e) ==
  IF e = "generate" THEN RANGES_generate
  ELSE IF e = "refine" THEN RANGES_refine
  ELSE RANGES_match

\* the second argument of round() in parse_response, per field
Precision(f) ==
  IF f \in {"temperature", "tint"} THEN 0
  ELSE IF f \in {"grain", "fade"} THEN 3
  ELSE 2

\* the default of parsed.get(field, default) in parse_response
GetDefault(f) ==
  IF f \in {"brightness", "contrast", "saturation"} THEN SCALE ELSE 0

Min2(a, b) == IF b < a THEN b ELSE a
Max2(a, b) == IF b > a THEN b ELSE a

\* ------------------------------------------------------------------------
\* JSON values: t is the kind, n the scaled number of a "num", s the
\* content of a "str" (a sequence of tokens)
\* ------------------------------------------------------------------------
JV(t, n, s) == [t |-> t, n |-> n, s |-> s]
Num(n)      == JV("num", n, <<>>)
Special(t)  == JV(t, 0, <<>>)
Str(s)      == JV("str", 0, s)

\* isinstance(value, (int, float)): bool is a subclass of int, and NaN,
\* Infinity and -Infinity are floats.
IsIntOrFloat(v) == v.t \in {"num", "nan", "inf", "ninf", "true", "false"}

\* Decimal ties whose double lies just below the decimal (1.025 and 0.175
\* are 1.02499.. and 0.17499.. as doubles), so that round() goes down.
DoubleBelowTie == {10250, 1750}

Pow10(d) == IF d = 0 THEN 1 ELSE IF d = 1 THEN 10 ELSE IF d = 2 THEN 100 ELSE 1000

\* round(x, d) of Python on a double: to the nearest multiple of 10^-d, an
\* exact tie going to the even neighbour.
Round(x, d) ==
  LET u == SCALE \div Pow10(d)
      q == x \div u
      r == x - q * u
  IN  IF 2 * r < u THEN q * u
      ELSE IF 2 * r > u THEN (q + 1) * u
      ELSE IF x \in DoubleBelowTie THEN q * u
      ELSE IF q % 2 = 0 THEN q * u ELSE (q + 1) * u

Midpoint(range_def) == (range_def.min + range_def.max) \div 2

\* clamp_value without the min(): values above the range are let through
clamp_value_noupper(value, range_def) ==
  IF ~IsIntOrFloat(value) \/ value.t = "nan"
  THEN Midpoint(range_def)
  ELSE IF value.t = "inf" THEN (MaxMagnitude + 1) * SCALE
  ELSE IF value.t = "ninf" THEN range_def.min
  ELSE LET n == IF value.t = "true" THEN SCALE
                ELSE IF value.t = "false" THEN 0
                ELSE value.n
       IN  Max2(range_def.min, n)

\* clamp_value without the "value != value" test: NaN compares false with
\* everything, so min(max, NaN) is max and the result is the range maximum
clamp_value_nonancheck(value, range_def) ==
  IF ~IsIntOrFloat(value)
  THEN Midpoint(range_def)
  ELSE IF value.t \in {"inf", "nan"} THEN range_def.max
  ELSE IF value.t = "ninf" THEN range_def.min
  ELSE LET n == IF value.t = "true" THEN SCALE
                ELSE IF value.t = "false" THEN 0
                ELSE value.n
       IN  Max2(range_def.min, Min2(range_def.max, n))

\* clamp_value with the two bounds swapped, max(max, min(min, value)): every
\* number comes out as the range maximum
clamp_value_swapped(value, range_def) ==
  IF ~IsIntOrFloat(value) \/ value.t = "nan"
  THEN Midpoint(range_def)
  ELSE range_def.max

\* clamp_value(value, range_def)
clamp_value(value, range_def) ==
  IF ~IsIntOrFloat(value) \/ value.t = "nan"
  THEN Midpoint(range_def)
  ELSE IF value.t = "inf" THEN range_def.max
  ELSE IF value.t = "ninf" THEN range_def.min
  ELSE LET n == IF value.t = "true" THEN SCALE
                ELSE IF value.t = "false" THEN 0
                ELSE value.n
       IN  Max2(range_def.min, Min2(range_def.max, n))

\* ------------------------------------------------------------------------
\* Texts
\* ------------------------------------------------------------------------
\* the dict with no members
EmptyMap == [x \in {} |-> 0]

NoDoc == [t |-> "none", m |-> EmptyMap]

\* a token of a text: k is its kind, d the JSON document of a "doc" token
Tok(k)  == [k |-> k, d |-> NoDoc]
FENCE   == Tok("fence")
TAGJSON == Tok("json")
TAGOTHER == Tok("python")
NL      == Tok("nl")
PROSE   == Tok("x")
DocTok(d) == [k |-> "doc", d |-> d]

\* a JSON object with members m (a function from member names to values)
Object(m) == [t |-> "object", m |-> m]
\* a JSON document that is not an object: an array, a number, a string
NonObject == [t |-> "array", m |-> EmptyMap]

\* str.strip(): leading and trailing white space removed
RECURSIVE LStrip(_)
LStrip(s) ==
  IF s # <<>> /\ Head(s) = NL THEN LStrip(Tail(s)) ELSE s

RECURSIVE RStrip(_)
RStrip(s) ==
  IF s # <<>> /\ s[Len(s)] = NL THEN RStrip(SubSeq(s, 1, Len(s) - 1)) ELSE s

Strip(s) == RStrip(LStrip(s))

\* str.startswith(FENCE): FENCE is the triple backtick
StartsWithFence(s) == s # <<>> /\ Head(s) = FENCE

\* str.replace(FENCE + "json", "") on the characters outside JSON documents
RECURSIVE ReplaceFenceJsonSeq(_)
ReplaceFenceJsonSeq(s) ==
  IF s = <<>> THEN <<>>
  ELSE IF Len(s) >= 2 /\ s[1] = FENCE /\ s[2] = TAGJSON
       THEN ReplaceFenceJsonSeq(SubSeq(s, 3, Len(s)))
       ELSE <<Head(s)>> \o ReplaceFenceJsonSeq(Tail(s))

\* str.replace(FENCE, "") on the characters outside JSON documents
ReplaceFenceSeq(s) == SelectSeq(s, LAMBDA c : c # FENCE)

\* both replacements as they act on the string literals of a document:
\* str.replace works on the whole text, string contents included
ReplaceInValue(v) ==
  IF v.t = "str" THEN [v EXCEPT !.s = ReplaceFenceSeq(ReplaceFenceJsonSeq(v.s))]
  ELSE v

ReplaceInDoc(d) ==
  IF d.t = "object"
  THEN [d EXCEPT !.m = [key \in DOMAIN d.m |-> ReplaceInValue(d.m[key])]]
  ELSE d

ReplaceInDocs(s) ==
  [i \in 1..Len(s) |-> IF s[i].k = "doc" THEN DocTok(ReplaceInDoc(s[i].d)) ELSE s[i]]

\* cleaned.replace(FENCE + "json", "").replace(FENCE, "")
RemoveFences(s) == ReplaceInDocs(ReplaceFenceSeq(ReplaceFenceJsonSeq(s)))

\* json.loads(text): white space around the document is allowed, anything
\* else fails
json_loads(s) ==
  LET c == Strip(s)
  IN  IF Len(c) = 1 /\ c[1].k = "doc"
      THEN [exc |-> "none", doc |-> c[1].d]
      ELSE [exc |-> "JSONDecodeError", doc |-> NoDoc]

\* the "Botanical Custom" placeholder of generate-filter
PLACEHOLDER == Str(<<Tok("Botanical Custom")>>)
NoName == Special("absent")
NoParams == [f \in Fields |-> 0]

\* dict.get(key, default)
Get(m, key, default) == IF key \in DOMAIN m THEN m[key] ELSE default

\* the text after lines "cleaned = ..." of parse_response
Cleaned(response_text) ==
  LET cleaned == Strip(response_text)
  IN  IF StartsWithFence(cleaned) THEN Strip(RemoveFences(cleaned)) ELSE cleaned

\* parse_response(response_text) of endpoint e
parse_response(e, response_text) ==
  LET loaded == json_loads(Cleaned(response_text))
      parsed == loaded.doc
  IN  IF loaded.exc # "none"
      THEN [exc |-> loaded.exc, params |-> NoParams, name |-> NoName]
      ELSE IF parsed.t # "object"
      THEN [exc |-> "AttributeError", params |-> NoParams, name |-> NoName]
      ELSE [exc |-> "none",
            params |-> [f \in Fields |->
               Round(clamp_value(Get(parsed.m, f, Num(GetDefault(f))),
                                 RANGES(e)[f]),
                     Precision(f))],
            name |-> IF e = "generate"
                     THEN Get(parsed.m, "name", PLACEHOLDER)
                     ELSE NoName]

\* ------------------------------------------------------------------------
\* The request: environment, method, body
\* ------------------------------------------------------------------------
Methods == {"POST", "GET", "OPTIONS"}

\* os.environ.get("OPENROUTER_API_KEY"): None when absent, else a string
NoKey == [present |-> FALSE, len |-> 0]
Key(n) == [present |-> TRUE, len |-> n]
ApiKeys == {NoKey} \cup {Key(n) : n \in {0, 9, 10, MaxKeyLen}}

\* "not api_key": None and "" are falsy
Falsy(api_key) == ~api_key.present \/ api_key.len = 0

\* quiz records of generate-filter
Answer(v) == [answer |-> v]
Option(v, l, d) == [value |-> v, label |-> l, description |-> d]
\* option "a" has a label only, option "b" a label and a description
OptA == Option("a", TRUE, FALSE)
OptB == Option("b", TRUE, TRUE)
Question == [text |-> "Mood?", options |-> <<OptA, OptB>>]

Absent == [present |-> FALSE, v |-> <<>>]
Present(v) == [present |-> TRUE, v |-> v]

\* the first answer is any of "a", "b" and a free text, the others are "b"
AnswerSeqs ==
  {<<>>} \cup
  {[i \in 1..n |-> IF i = 1 THEN Answer(v) ELSE Answer("b")] :
     n \in 1..MaxAnswers, v \in {"a", "b", "zz"}}
QuestionSeqs == {[i \in 1..n |-> Question] : n \in 0..MaxAnswers}

\* currentParams of refine-filter and match-style
CP_full ==
  [brightness |-> 13000, contrast |-> 9000, saturation |-> 12000,
   temperature |-> 100000, tint |-> -50000, grain |-> 1000,
   vignette |-> 2000, fade |-> 500]
CP_partial == [temperature |-> 100000]
NoDict == [kind |-> "absent", m |-> EmptyMap]
Dict(m) == [kind |-> "dict", m |-> m]
NotADict == [kind |-> "str", m |-> EmptyMap]
CurrentParamsValues == {NoDict, Dict(EmptyMap), Dict(CP_partial), Dict(CP_full), NotADict}

\* instruction and image: absent, the empty string, or a text
TextFields == {"absent", "empty", "text"}

\* A request body. syntax: "badlength" (Content-Length is not a number),
\* "notjson" (also the empty body), "nonobject" (JSON, but not an object),
\* "object".
Body(syn, qr, qs, cp, ins, img) ==
  [syntax |-> syn, quizResults |-> qr, questions |-> qs,
   currentParams |-> cp, instruction |-> ins, image |-> img]

MalformedBodies ==
  {Body(syn, Absent, Absent, NoDict, "absent", "absent") :
     syn \in {"badlength", "notjson", "nonobject"}}

Bodies(e) ==
  MalformedBodies \cup
  IF e = "generate"
  THEN {Body("object", qr, qs, NoDict, "absent", "absent") :
          qr \in {Absent} \cup {Present(a) : a \in AnswerSeqs},
          qs \in {Absent} \cup {Present(q) : q \in QuestionSeqs}}
  ELSE IF e = "refine"
  THEN {Body("object", Absent, Absent, cp, ins, "absent") :
          cp \in CurrentParamsValues, ins \in TextFields}
  ELSE {Body("object", Absent, Absent, cp, "absent", img) :
          cp \in CurrentParamsValues, img \in TextFields}

\* ------------------------------------------------------------------------
\* Steps of do_POST before the outbound call.  Each returns the exception
\* it raises ("none" when it returns normally) and, when it sends an error
\* response itself, that response's status and message.
\* ------------------------------------------------------------------------
Ok == [exc |-> "none", status |-> 0, msg |-> "none"]
Raises(x) == [exc |-> x, status |-> 0, msg |-> "none"]
Rejects(st, m) == [exc |-> "none", status |-> st, msg |-> m]

\* the API key checks at the head of do_POST
CheckKey(e, api_key) ==
  IF Falsy(api_key) THEN Rejects(500, "config_missing")
  ELSE IF e # "generate" /\ api_key.len < 10 THEN Rejects(500, "config_invalid")
  ELSE Ok

\* reading and parsing the body, and the required-field checks
ValidateBody(e, body) ==
  IF body.syntax = "badlength" THEN Raises("ValueError")
  ELSE IF body.syntax = "notjson" THEN Raises("JSONDecodeError")
  ELSE IF body.syntax = "nonobject" THEN Raises("AttributeError")
  ELSE IF e = "generate"
  THEN IF Len(body.quizResults.v) = 0 \/ Len(body.questions.v) = 0
       THEN Rejects(400, "missing_fields") ELSE Ok
  ELSE IF e = "refine"
  THEN IF body.currentParams.kind = "absent"
          \/ (body.currentParams.kind = "dict" /\ DOMAIN body.currentParams.m = {})
          \/ body.instruction # "text"
       THEN Rejects(400, "missing_fields") ELSE Ok
  ELSE IF body.image # "text" THEN Rejects(400, "missing_fields") ELSE Ok

\* next((opt[member] for opt in options if opt["value"] == answer), default):
\* the first option whose value is the answer
RECURSIVE FirstMatch(_, _)
FirstMatch(options, answer) ==
  IF options = <<>> THEN 0
  ELSE IF Head(options).value = answer THEN 1
  ELSE LET r == FirstMatch(Tail(options), answer)
       IN  IF r = 0 THEN 0 ELSE r + 1

\* one line of answer_summary: the label and the description rendered, or
\* the KeyError of opt["description"] on an option that has none
PromptLine(r, q) ==
  LET i == FirstMatch(q.options, r.answer)
  IN  IF i = 0
      THEN [exc |-> "none", label |-> r.answer, description |-> ""]
      ELSE IF ~q.options[i].label \/ ~q.options[i].description
      THEN [exc |-> "KeyError", label |-> "", description |-> ""]
      ELSE [exc |-> "none", label |-> q.options[i].value, description |-> "described"]

\* build_prompt(quiz_results, questions): zip stops at the shorter sequence
build_prompt(quiz_results, questions) ==
  LET n == Min2(Len(quiz_results), Len(questions))
      lines == [i \in 1..n |-> PromptLine(quiz_results[i], questions[i])]
  IN  IF \E i \in 1..n : lines[i].exc # "none"
      THEN [exc |-> "KeyError", lines |-> <<>>]
      ELSE [exc |-> "none", lines |-> lines]

\* the effective current parameters of the prompt: match-style replaces a
\* falsy currentParams by the defaults
DefaultParams == [f \in Fields |-> GetDefault(f)]

\* build_refine_prompt / build_vision_prompt: current_params.get(...)
build_params_prompt(e, current_params) ==
  IF current_params.kind = "str" THEN [exc |-> "AttributeError", shown |-> DefaultParams]
  ELSE LET cp == IF e = "match" /\ DOMAIN current_params.m = {} THEN DefaultParams
                 ELSE current_params.m
       IN  [exc |-> "none", shown |-> [f \in Fields |-> Get(cp, f, GetDefault(f))]]

\* the prompt step of do_POST
BuildPrompt(e, body) ==
  IF e = "generate"
  THEN Raises(build_prompt(body.quizResults.v, body.questions.v).exc)
  ELSE Raises(build_params_prompt(e, body.currentParams).exc)

\* ------------------------------------------------------------------------
\* The provider's answer
\* ------------------------------------------------------------------------
\* a member of the reply message that holds a text: absent, null, or a string
TextVal(t, s) == [t |-> t, s |-> s]
NoText   == TextVal("absent", <<>>)
NullText == TextVal("null", <<>>)
Text(s)  == TextVal("str", s)

\* "not content": None and "" are falsy
FalsyText(c) == c.t # "str" \/ Len(c.s) = 0

Message(c, rd, r) == [content |-> c, reasoning_details |-> rd, reasoning |-> r]
NoMessage == Message(NoText, NoText, NoText)

\* kind: "connect_fail" (connection refused, DNS failure, timeout while
\* connecting), "read_timeout" (timeout while the reply is read), "response".
\* body: "notutf8", "notjson", "array" (JSON, not an object), "empty_object",
\* "error_string" ({"error": "x"}), "error_nomsg" ({"error": {}}),
\* "error_msg" ({"error": {"message": "x"}}), "empty_choices", "choices".
Upstream(kind, status, body, message) ==
  [kind |-> kind, status |-> status, body |-> body, message |-> message]
NoUpstream == Upstream("none", 0, "none", NoMessage)

BodyKinds == {"notutf8", "notjson", "array", "empty_object", "error_string",
              "error_nomsg", "error_msg", "empty_choices"}
ErrorStatuses == {429, 503}

\* numbers a reply may hold for field f of endpoint e
NumVals(e, f) ==
  LET r == RANGES(e)[f]
  IN  {-MaxMagnitude * SCALE, MaxMagnitude * SCALE, -50000, 0, 1234, 25000,
       r.min, r.max, r.min - 1, r.max + 1, Midpoint(r)}

SpecialVals ==
  {Special(t) : t \in {"nan", "inf", "ninf", "true", "false", "null", "arr"}}
    \cup {Str(<<Tok("a")>>)}

NameVals ==
  {Str(<<Tok("Sunny")>>), Str(<<>>), Str(<<Tok("a"), FENCE, Tok("b")>>),
   Str(<<FENCE, TAGJSON>>), Special("null")}

Member(key, v) == [x \in {key} |-> v]

\* the JSON documents of the replies: one member each, so that every field
\* meets every kind of value, the empty object, and a document that is not
\* an object
Docs(e) ==
  {Object(Member(f, v)) : f \in Fields, v \in SpecialVals}
    \cup UNION {{Object(Member(f, Num(n))) : n \in NumVals(e, f)} : f \in Fields}
    \cup {Object(Member("name", v)) : v \in NameVals}
    \cup {Object(EmptyMap), NonObject}

Forms == {"bare", "padded", "fenced", "fenced_json", "fenced_other", "prose_fenced"}

\* document d written as a reply text of the given form
Wrap(form, d) ==
  IF form = "bare" THEN <<DocTok(d)>>
  ELSE IF form = "padded" THEN <<NL, DocTok(d), NL>>
  ELSE IF form = "fenced" THEN <<FENCE, NL, DocTok(d), NL, FENCE>>
  ELSE IF form = "fenced_json" THEN <<FENCE, TAGJSON, NL, DocTok(d), NL, FENCE>>
  ELSE IF form = "fenced_other" THEN <<FENCE, TAGOTHER, NL, DocTok(d), NL, FENCE, NL>>
  ELSE <<PROSE, NL, FENCE, TAGJSON, NL, DocTok(d), NL, FENCE>>

ReplyTexts(e) ==
  {Wrap(form, d) : form \in Forms, d \in Docs(e)}
    \cup {<<>>, <<NL>>, <<PROSE>>, <<PROSE, PROSE>>}

Messages(e) ==
  {Message(Text(t), NoText, NoText) : t \in ReplyTexts(e)}
    \cup {Message(NoText, NoText, NoText), Message(NullText, NoText, NoText),
          Message(Text(<<>>), Text(<<DocTok(Object(EmptyMap))>>), NoText),
          Message(NullText, NoText, Text(<<DocTok(Object(EmptyMap))>>)),
          Message(NullText, Text(<<>>), Text(<<PROSE>>))}

Upstreams(e) ==
  {Upstream(k, 0, "none", NoMessage) : k \in {"connect_fail", "read_timeout"}}
    \cup {Upstream("response", st, b, NoMessage) :
            st \in ErrorStatuses \cup {200}, b \in BodyKinds}
    \cup {Upstream("response", 200, "choices", m) : m \in Messages(e)}

\* ------------------------------------------------------------------------
\* The LLM client
\* ------------------------------------------------------------------------
Returns(c) == [exc |-> "none", status |-> 0, msg |-> "none", content |-> c]
CallRaises(x) == [exc |-> x, status |-> 0, msg |-> "none", content |-> NoText]
CallRejects(st, m) == [exc |-> "none", status |-> st, msg |-> m, content |-> NoText]

\* generate-filter: the httpx call inside do_POST, the "status_code != 200"
\* branch, and result["choices"][0]["message"]["content"]
call_httpx(up) ==
  IF up.kind # "response" THEN CallRaises("TransportError")
  ELSE IF up.body = "notutf8" THEN CallRaises("UnicodeDecodeError")
  ELSE IF up.body = "notjson" THEN CallRaises("JSONDecodeError")
  ELSE IF up.status # 200
  THEN IF up.body \in {"array", "error_string"} THEN CallRaises("AttributeError")
       ELSE IF up.body = "error_msg" THEN CallRejects(up.status, "provider_message")
       ELSE CallRejects(up.status, "api_request_failed")
  ELSE IF up.body = "array" THEN CallRaises("TypeError")
  ELSE IF up.body = "empty_choices" THEN CallRaises("IndexError")
  ELSE IF up.body # "choices" THEN CallRaises("KeyError")
  ELSE IF up.message.content.t = "absent" THEN CallRaises("KeyError")
  ELSE Returns(up.message.content)

\* the failures of urllib.request.urlopen and of reading the reply, and
\* the checks on the decoded reply common to call_openrouter and
\* call_openrouter_vision; "none" when the reply holds a message
urlopen_failure(up) ==
  IF up.kind = "connect_fail" THEN "URLError"
  ELSE IF up.kind = "read_timeout" THEN "TimeoutError"
  ELSE IF up.status # 200 THEN "HTTPError"
  ELSE IF up.body = "notutf8" THEN "UnicodeDecodeError"
  ELSE IF up.body = "notjson" THEN "JSONDecodeError"
  ELSE IF up.body # "choices" THEN "Exception"
  ELSE "none"

\* refine-filter: call_openrouter(prompt, api_key)
call_openrouter(up) ==
  LET message == up.message
      c0 == IF message.content.t = "absent" THEN Text(<<>>) ELSE message.content
      c1 == IF FalsyText(c0) /\ message.reasoning_details.t # "absent"
            THEN IF FalsyText(message.reasoning_details) THEN c0
                 ELSE message.reasoning_details
            ELSE c0
      c2 == IF FalsyText(c1) /\ message.reasoning.t # "absent"
            THEN message.reasoning ELSE c1
  IN  IF urlopen_failure(up) # "none" THEN CallRaises(urlopen_failure(up))
      ELSE IF FalsyText(c2) THEN CallRaises("Exception")
      ELSE Returns(c2)

\* match-style: call_openrouter_vision(prompt, base64_image, api_key)
call_openrouter_vision(up) ==
  IF urlopen_failure(up) # "none" THEN CallRaises(urlopen_failure(up))
  ELSE IF up.message.content.t = "absent" THEN CallRaises("KeyError")
  ELSE IF FalsyText(up.message.content) THEN CallRaises("Exception")
  ELSE Returns(up.message.content)

CallProvider(e, up) ==
  IF e = "generate" THEN call_httpx(up)
  ELSE IF e = "refine" THEN call_openrouter(up)
  ELSE call_openrouter_vision(up)

\* ------------------------------------------------------------------------
\* Responses
\* ------------------------------------------------------------------------
\* One HTTP response written by the handler.  kind: "success", "error",
\* "info" (do_GET), "preflight" (do_OPTIONS), "unsupported" (the 501 of
\* BaseHTTPRequestHandler for a method the class does not define).
Response(kind, status, msg, cors, json, params, name) ==
  [kind |-> kind, status |-> status, msg |-> msg, cors |-> cors,
   json |-> json, params |-> params, name |-> name]

\* send_error_response(status_code, message)
send_error_response(status, msg) ==
  Response("error", status, msg, TRUE, TRUE, NoParams, NoName)

\* the "Send success response" lines of do_POST
SuccessResponse(params, name) ==
  Response("success", 200, "none", TRUE, TRUE, params, name)

\* What the except clauses of do_POST do with exception exc: the
\* responses they send, and whether an exception leaves do_POST.
Handled(resp) == [responses |-> <<resp>>, escaped |-> FALSE]
Escapes == [responses |-> <<>>, escaped |-> TRUE]

\* except urllib.error.HTTPError of refine-filter and match-style
ExceptHTTPError(up) ==
  IF up.body = "notutf8" THEN Escapes
  ELSE IF up.body \in {"notjson", "array", "error_string"}
  THEN Handled(send_error_response(up.status, "http_raw_body"))
  ELSE IF up.body = "error_msg"
  THEN Handled(send_error_response(up.status, "provider_message"))
  ELSE Handled(send_error_response(up.status, "http_error_str"))

ExceptClauses(e, exc, up) ==
  IF e # "generate" /\ exc = "HTTPError" THEN ExceptHTTPError(up)
  ELSE IF e # "generate" /\ exc = "URLError"
  THEN Handled(send_error_response(500, "network_error"))
  ELSE IF exc = "JSONDecodeError"
  THEN Handled(send_error_response(400, "invalid_json"))
  ELSE Handled(send_error_response(500, "server_error"))

\* ------------------------------------------------------------------------
\* State
\* ------------------------------------------------------------------------
VARIABLES
  endpoint,   \* the endpoint the request is for
  method,     \* its HTTP verb
  api_key,    \* the API key of the environment
  body,       \* the request body
  pc,         \* the place of the handler in the request
  upstream,   \* what the provider did with the outbound call
  content,    \* the reply text the LLM client returned
  result,     \* the outcome of parse_response
  responses,  \* the HTTP responses written for this request, in order
  calls,      \* outbound calls made for this request
  escaped,    \* an exception left the handler
  steps       \* the places the request went through, in order

vars == <<endpoint, method, api_key, body, pc, upstream, content, result,
          responses, calls, escaped, steps>>

NoResult == [exc |-> "none", params |-> NoParams, name |-> NoName]
NoBody == Body("notjson", Absent, Absent, NoDict, "absent", "absent")

Terminal == {"Responded", "Errored", "Escaped"}

Init ==
  /\ endpoint = "generate"
  /\ method = "OPTIONS"
  /\ api_key = NoKey
  /\ body = NoBody
  /\ pc = "Idle"
  /\ upstream = NoUpstream
  /\ content = NoText
  /\ result = NoResult
  /\ responses = <<>>
  /\ calls = 0
  /\ escaped = FALSE
  /\ steps = <<>>

\* a request arrives
Receive(e, m, k, b) ==
  /\ pc = "Idle"
  /\ endpoint' = e
  /\ method' = m
  /\ api_key' = k
  /\ body' = b
  /\ pc' = "Received"
  /\ steps' = <<"Received">>
  /\ UNCHANGED <<upstream, content, result, responses, calls, escaped>>

\* the handler ends the request with an error response, or with the
\* exception handling of do_POST
Fail(out) ==
  /\ responses' = responses \o out.responses
  /\ escaped' = out.escaped
  /\ pc' = IF out.escaped THEN "Escaped" ELSE "Errored"
  /\ steps' = Append(steps, IF out.escaped THEN "Escaped" ELSE "Errored")

Advance(to) ==
  /\ pc' = to
  /\ steps' = Append(steps, to)
  /\ UNCHANGED <<responses, escaped>>

\* a step whose error response is not followed by "return": the response is
\* sent and the handler goes on to the next step
ContinueNoReturn(r, to, up) ==
  IF r.exc # "none" THEN Fail(ExceptClauses(endpoint, r.exc, up))
  ELSE /\ pc' = to
       /\ steps' = Append(steps, to)
       /\ responses' = IF r.status # 0
                       THEN Append(responses, send_error_response(r.status, r.msg))
                       ELSE responses
       /\ UNCHANGED escaped

\* a step that returned r: go on, send the step's own error response, or
\* run the except clauses
Continue(r, to, up) ==
  IF r.exc # "none" THEN Fail(ExceptClauses(endpoint, r.exc, up))
  ELSE IF r.status # 0 THEN Fail(Handled(send_error_response(r.status, r.msg)))
  ELSE Advance(to)

\* do_OPTIONS
do_OPTIONS ==
  /\ pc = "Received" /\ method = "OPTIONS"
  /\ responses' = Append(responses,
       Response("preflight", 200, "none", TRUE, FALSE, NoParams, NoName))
  /\ pc' = "Responded"
  /\ steps' = Append(steps, "Responded")
  /\ UNCHANGED <<endpoint, method, api_key, body, upstream, content, result,
                 calls, escaped>>

\* do_GET of refine-filter and match-style; generate-filter defines none,
\* and BaseHTTPRequestHandler answers 501
do_GET ==
  /\ pc = "Received" /\ method = "GET"
  /\ responses' = Append(responses,
       IF endpoint = "generate"
       THEN Response("unsupported", 501, "none", FALSE, FALSE, NoParams, NoName)
       ELSE Response("info", 200, "none", TRUE, TRUE, NoParams, NoName))
  /\ pc' = "Responded"
  /\ steps' = Append(steps, "Responded")
  /\ UNCHANGED <<endpoint, method, api_key, body, upstream, content, result,
                 calls, escaped>>

\* do_POST: the API key checks
PostCheckKey ==
  /\ pc = "Received" /\ method = "POST"
  /\ Continue(CheckKey(endpoint, api_key), "KeyChecked", upstream)
  /\ UNCHANGED <<endpoint, method, api_key, body, upstream, content, result, calls>>

\* do_POST: the body is read and parsed, the required fields are checked
PostValidate ==
  /\ pc = "KeyChecked"
  /\ Continue(ValidateBody(endpoint, body), "Validated", upstream)
  /\ UNCHANGED <<endpoint, method, api_key, body, upstream, content, result, calls>>

\* do_POST: the prompt is built
PostPrompt ==
  /\ pc = "Validated"
  /\ Continue(BuildPrompt(endpoint, body), "Prompted", upstream)
  /\ UNCHANGED <<endpoint, method, api_key, body, upstream, content, result, calls>>

\* the outbound call with one retry: a call that failed leaves the handler
\* before the call, to make it once more
PostCallRetry(up) ==
  /\ pc = "Prompted"
  /\ calls' = calls + 1
  /\ upstream' = up
  /\ LET r == CallProvider(endpoint, up)
     IN  /\ content' = r.content
         /\ IF (r.exc # "none" \/ r.status # 0) /\ calls = 0
            THEN UNCHANGED <<pc, steps, responses, escaped>>
            ELSE Continue(r, "Called-LLM", up)
  /\ UNCHANGED <<endpoint, method, api_key, body, result>>

\* do_POST: the outbound call; up is what the provider does with it
PostCall(up) ==
  /\ pc = "Prompted"
  /\ calls' = calls + 1
  /\ upstream' = up
  /\ LET r == CallProvider(endpoint, up)
     IN  /\ content' = r.content
         /\ Continue(r, "Called-LLM", up)
  /\ UNCHANGED <<endpoint, method, api_key, body, result>>

\* do_POST: parse_response on the reply text (a reply content that is not
\* a string has no strip())
PostParse ==
  /\ pc = "Called-LLM"
  /\ LET r == IF content.t # "str"
              THEN [exc |-> "AttributeError", params |-> NoParams, name |-> NoName]
              ELSE parse_response(endpoint, content.s)
     IN  /\ result' = r
         /\ Continue(Raises(r.exc), "Parsed", upstream)
  /\ UNCHANGED <<endpoint, method, api_key, body, upstream, content, calls>>

\* do_POST: the success response
PostRespond ==
  /\ pc = "Parsed"
  /\ responses' = Append(responses, SuccessResponse(result.params, result.name))
  /\ pc' = "Responded"
  /\ steps' = Append(steps, "Responded")
  /\ UNCHANGED <<endpoint, method, api_key, body, upstream, content, result,
                 calls, escaped>>

\* the request is over; nothing of it is kept for the next one
NextRequest ==
  /\ pc \in Terminal
  /\ endpoint' = "generate"
  /\ method' = "OPTIONS"
  /\ api_key' = NoKey
  /\ body' = NoBody
  /\ pc' = "Idle"
  /\ upstream' = NoUpstream
  /\ content' = NoText
  /\ result' = NoResult
  /\ responses' = <<>>
  /\ calls' = 0
  /\ escaped' = FALSE
  /\ steps' = <<>>

Next ==
  \/ /\ pc = "Idle"
     /\ \E e \in Endpoints, m \in Methods, k \in ApiKeys :
          \E b \in Bodies(e) : Receive(e, m, k, b)
  \/ do_OPTIONS
  \/ do_GET
  \/ PostCheckKey
  \/ PostValidate
  \/ PostPrompt
  \/ /\ pc = "Prompted"
     /\ \E up \in Upstreams(endpoint) : PostCall(up)
  \/ PostParse
  \/ PostRespond
  \/ NextRequest

Spec == Init /\ [][Next]_vars

TypeOK ==
  /\ endpoint \in Endpoints
  /\ method \in Methods
  /\ pc \in {"Idle", "Received", "KeyChecked", "Validated", "Prompted",
             "Called-LLM", "Parsed"} \cup Terminal
  /\ calls \in Nat
  /\ escaped \in BOOLEAN

\* ------------------------------------------------------------------------
\* Properties
\* ------------------------------------------------------------------------
\* the JSON document inside the reply text the LLM client returned
ReplyDoc ==
  LET docs == SelectSeq(content.s, LAMBDA c : c.k = "doc")
  IN  IF Len(docs) = 1 THEN docs[1].d ELSE NoDoc

\* the reply's value for field f, "absent" when the reply has no such member
ReplyValue(f) == Get(ReplyDoc.m, f, Special("absent"))

InRange(x, r) == r.min <= x /\ x <= r.max

\* parse_response returned a record for the POST request
Validated == method = "POST" /\ pc \in {"Parsed", "Responded"}

\* C1: on every endpoint, whatever a reply that parses as a JSON object
\* holds for a field, each of the 8 numeric fields parse_response returns,
\* and the success response carries, lies within [min, max] of the
\* endpoint's RANGES, after the rounding.
C1_FieldsInRange ==
  Validated =>
    /\ \A f \in Fields : InRange(result.params[f], RANGES(endpoint)[f])
    /\ pc = "Responded" =>
         \A f \in Fields : InRange(responses[1].params[f], RANGES(endpoint)[f])

\* a reply holding Infinity for grain was validated to the range maximum
C1_Witness ==
  /\ pc = "Responded" /\ method = "POST" /\ endpoint = "generate"
  /\ ReplyValue("grain").t = "inf"
  /\ responses[1].params["grain"] = 1500

IsFencedReply(s) ==
  LET c == Strip(s)
  IN  /\ Len(c) >= 3
      /\ c[1] = FENCE /\ c[Len(c)] = FENCE
      /\ Len(SelectSeq(c, LAMBDA t : t = FENCE)) = 2
      /\ Len(SelectSeq(c, LAMBDA t : t.k = "doc")) = 1
      /\ \A i \in 1..Len(c) : c[i] # PROSE

\* parse_response ran on the reply text
ParseRan == method = "POST" /\ pc \in Terminal /\ content.t = "str"

\* C4: parse_response of a JSON text wrapped in a code fence, with no
\* language tag or with any language tag, is parse_response of the JSON
\* text itself.
C4_FenceTransparent ==
  (ParseRan /\ IsFencedReply(content.s)) =>
    result = parse_response(endpoint, <<DocTok(ReplyDoc)>>)

\* the provider answered 200 with a reply content that holds no JSON
\* document: prose, white space, or nothing
MalformedReply ==
  /\ upstream.kind = "response" /\ upstream.status = 200
  /\ upstream.body = "choices"
  /\ upstream.message = Message(upstream.message.content, NoText, NoText)
  /\ upstream.message.content.t = "str"
  /\ \A i \in 1..Len(upstream.message.content.s) :
       upstream.message.content.s[i].k # "doc"

\* C2: a 200 answer whose reply content is not valid JSON, or is empty,
\* ends the request with one HTTP 500 whose message is not the one of the
\* client-input error, never with a 400 or a success.
C2_MalformedReplyIs500 ==
  (pc \in Terminal /\ MalformedReply) =>
    /\ Len(responses) = 1
    /\ responses[1].kind = "error"
    /\ responses[1].status = 500
    /\ responses[1].msg # "invalid_json"

\* C5: every POST request ends with exactly one response, with a JSON
\* body and Access-Control-Allow-Origin: *, and no exception leaves the
\* handler.
C5_ExactlyOneResponse ==
  (method = "POST" /\ pc \in Terminal) =>
    /\ ~escaped
    /\ Len(responses) = 1
    /\ responses[1].json
    /\ responses[1].cors

\* C6: a request makes at most one outbound call, a failed call is not
\* made again, and a request that is not a POST, or a POST rejected by the
\* key check or the body checks, makes none.
C6_AtMostOneCall ==
  /\ calls <= 1
  /\ method # "POST" => calls = 0
  /\ (Falsy(api_key) \/ body.syntax # "object") => calls = 0
  /\ (pc \in Terminal /\ ~(\E i \in 1..Len(steps) : steps[i] = "Prompted"))
       => calls = 0

\* a call failed on the network and the request ended after that one call
C6_Witness ==
  /\ pc = "Errored" /\ calls = 1 /\ upstream.kind = "connect_fail"

\* the API key is absent, empty, or shorter than the 10 characters the
\* handlers take as the least plausible length
ImplausibleKey == Falsy(api_key) \/ api_key.len < 10

\* C7: on every endpoint a POST with an absent, empty or implausibly short
\* API key ends at the key check with HTTP 500 and a configuration error,
\* and no outbound call.
C7_BadKeyIs500 ==
  (method = "POST" /\ ImplausibleKey /\ pc \notin {"Idle", "Received"}) =>
    /\ pc = "Errored"
    /\ calls = 0
    /\ Len(responses) = 1
    /\ responses[1].status = 500
    /\ responses[1].msg \in {"config_missing", "config_invalid"}

GenericMessages == {"api_request_failed", "http_raw_body", "http_error_str"}

\* C8: a provider answer with a status other than 2xx ends the request
\* with that status; the message is the provider's when the body carries
\* one, and a generic one otherwise, also for a body that is not JSON or
\* whose error member is not an object.  (Stated for bodies that are text.)
C8_UpstreamStatusPropagated ==
  (pc \in Terminal /\ upstream.kind = "response" /\ upstream.status # 200
     /\ upstream.body # "notutf8") =>
    /\ Len(responses) = 1
    /\ responses[1].status = upstream.status
    /\ upstream.body = "error_msg" => responses[1].msg = "provider_message"
    /\ upstream.body # "error_msg" => responses[1].msg \in GenericMessages

\* the body is not JSON, is JSON but not an object, or lacks a field the
\* endpoint requires
BadBody ==
  \/ body.syntax \in {"notjson", "nonobject"}
  \/ /\ body.syntax = "object"
     /\ IF endpoint = "generate"
        THEN \/ Len(body.quizResults.v) = 0
             \/ Len(body.questions.v) = 0
             \/ Len(body.quizResults.v) # Len(body.questions.v)
        ELSE IF endpoint = "refine"
        THEN \/ body.currentParams.kind = "absent"
             \/ DOMAIN body.currentParams.m = {} /\ body.currentParams.kind = "dict"
             \/ body.instruction # "text"
        ELSE body.image # "text"

\* C9: with a valid API key, a POST whose body is malformed or lacks a
\* required field ends with HTTP 400 and no outbound call.
C9_BadBodyIs400 ==
  (method = "POST" /\ ~ImplausibleKey /\ BadBody
     /\ pc \notin {"Idle", "Received", "KeyChecked"}) =>
    /\ pc = "Errored"
    /\ calls = 0
    /\ Len(responses) = 1
    /\ responses[1].status = 400

\* C10: in refine-filter a field absent from the reply is returned with
\* the request's currentParams value for it, clamped to the range.
C10_FallbackIsCurrentParams ==
  (Validated /\ endpoint = "refine") =>
    \A f \in Fields :
      (ReplyValue(f).t = "absent" /\ f \in DOMAIN body.currentParams.m) =>
        result.params[f] =
          Round(Max2(RANGES(endpoint)[f].min,
                     Min2(RANGES(endpoint)[f].max, body.currentParams.m[f])),
                Precision(f))

\* C11: a number of the reply that lies within [min, max], the two bounds
\* included, is returned unchanged up to the rounding of its field; a
\* number below min is returned as min and a number above max as max.
C11_InRangeUnchanged ==
  Validated =>
    \A f \in Fields :
      LET v == ReplyValue(f)
          r == RANGES(endpoint)[f]
          x == result.params[f]
      IN  v.t = "num" =>
            /\ InRange(v.n, r) => x = Round(v.n, Precision(f))
            /\ v.n = r.min => x = r.min
            /\ v.n = r.max => x = r.max
            /\ v.n < r.min => x = r.min
            /\ v.n > r.max => x = r.max

\* refine-filter returned a reply temperature of -999 as the minimum -40
C11_Witness ==
  /\ pc = "Parsed" /\ endpoint = "refine"
  /\ ReplyValue("temperature") = Num(-MaxMagnitude * SCALE)
  /\ result.params["temperature"] = -400000

\* the outbound call failed on the network: no connection, no DNS answer,
\* or a timeout while connecting or while the reply was read
NetworkFailure == upstream.kind \in {"connect_fail", "read_timeout"}

\* C12: on every endpoint a network-level failure of the outbound call
\* ends the request with one HTTP 500 whose message is of the network
\* kind, not the kind of a provider API error or of an unhandled error.
C12_NetworkFailureIsNetworkError ==
  (pc \in Terminal /\ NetworkFailure) =>
    /\ Len(responses) = 1
    /\ responses[1].status = 500
    /\ responses[1].msg = "network_error"

\* C13: the name generate-filter returns is the placeholder when the reply
\* has no name member or an empty name, and the reply's name otherwise.
C13_NamePlaceholder ==
  (Validated /\ endpoint = "generate" /\ ~IsFencedReply(content.s)) =>
    LET v == ReplyValue("name")
    IN  IF v.t = "absent" \/ (v.t = "str" /\ Len(v.s) = 0)
        THEN result.name = PLACEHOLDER
        ELSE result.name = v

\* the steps the request went through hold step
Passed(step) == \E i \in 1..Len(steps) : steps[i] = step

\* the answer / question pairs build_prompt renders
Pairs == 1..Min2(Len(body.quizResults.v), Len(body.questions.v))

\* C14: in generate-filter build_prompt completes without error for every
\* answer / question pair: a chosen option without a description renders
\* the empty description, an answer that matches no option renders the
\* raw answer as the label, and the request does not end in an error at
\* the prompt step.
C14_PromptTolerant ==
  (method = "POST" /\ endpoint = "generate" /\ Passed("Validated")
     /\ pc # "Validated") =>
    /\ Passed("Prompted")
    /\ build_prompt(body.quizResults.v, body.questions.v).exc = "none"
    /\ \A i \in Pairs :
         LET line == build_prompt(body.quizResults.v, body.questions.v).lines[i]
             k == FirstMatch(body.questions.v[i].options, body.quizResults.v[i].answer)
         IN  /\ k = 0 => line.label = body.quizResults.v[i].answer
             /\ (k # 0 /\ ~body.questions.v[i].options[k].description)
                  => line.description = ""

\* the steps of a POST request, in their order
StepOrder ==
  <<"Received", "KeyChecked", "Validated", "Prompted", "Called-LLM",
    "Parsed", "Responded">>

\* the steps gone through, without the error end of the request
StepsBeforeError ==
  IF steps # <<>> /\ steps[Len(steps)] \in {"Errored", "Escaped"}
  THEN SubSeq(steps, 1, Len(steps) - 1)
  ELSE steps

====
